---- MODULE Spec2Model ----
(***************************************************************************)
(* STEMwerk worker process (scripts/reaper/audio_separator_process.py).    *)
(*                                                                         *)
(* The specifications of this module:                                      *)
(*   Spec     one process run of main: the argument dispatch, and for a    *)
(*            job separate_stems with the foreground sequence and the two  *)
(*            estimator threads, interleaved step by step, writing         *)
(*            PROGRESS lines to the progress file and to stdout;           *)
(*   SpecFair Spec with weak fairness of the main thread's steps;          *)
(*   SpecDev  get_available_devices and select_device applied, after       *)
(*            main's start-up, to every backend state and request of a     *)
(*            bounded family;                                              *)
(*   SpecMain one process run of main with its uses of the backends, in a  *)
(*            run directory an earlier run may have used;                  *)
(*   SpecEmit one call of emit_progress, for every state of the two sinks; *)
(*   SpecWrite two concurrent calls of emit_progress, statement by         *)
(*            statement;                                                   *)
(*   SpecNorm the loop that renames the output files (lines 586-614);      *)
(*   SpecTool main of tools/separate.py.                                   *)
(***************************************************************************)
EXTENDS Integers, Sequences, FiniteSets, TLC

VARIABLES
    \* ---- job run ----
    fpc,              \* foreground position in main / separate_stems
    fsub,             \* inside emit_progress: "file" (before line 109) or "std" (before line 115)
    exc,              \* TRUE while an exception raised by separator.separate is in flight (the finally block runs)
    loading_done,     \* threading.Event of the loading phase
    processing_done,  \* threading.Event of the processing phase
    lpc,              \* loading_progress_thread position
    lElapsed,         \* last value of time.time() - start_time read by the loading thread (seconds; -1: none yet)
    lline,            \* percent the loading thread is emitting
    ppc,              \* progress_thread position
    pElapsed,         \* last elapsed read by the processing thread (seconds)
    pline,            \* percent the processing thread is emitting
    estimates,        \* loop iterations the two estimator threads have made so far
    last_percent,     \* progress_thread's local last_percent
    estimated_time,   \* seconds, computed from the audio duration and the device class
    outFile,          \* lines written to <output_dir>/stdout.txt (_progress_file)
    outStd,           \* lines written to sys.stdout
    done_txt,         \* content of <output_dir>/done.txt ("none": there is no such file)
    args,             \* the parsed command line and what os.path.exists says of args.input
    status,           \* exit status of the process (-1 while it runs)
    exit_line,        \* line of the sys.exit call that ended the process (0: none)
    progress_file,    \* what a write to _progress_file does: "none" (not configured), "ok", or the exception
    sys_stdout,       \* what a write to sys.stdout does: "ok", or the exception
    \* ---- device catalog ----
    env,              \* backend state the probes see
    call,             \* last function applied: "none", "enumerate", "select"
    request,          \* requested_device of the last select_device call
    ret,              \* outcome of the last call
    DEVICE_SKIPS,     \* the global _DEVICE_SKIPS
    device_arg,       \* args.device of the process: "auto" (any value but cpu) or "cpu"
    environ,          \* CUDA_/HIP_/ROCR_VISIBLE_DEVICES in os.environ: "startup" (main has not
                      \* reached line 762), "unset", "empty"
    \* ---- one call of emit_progress ----
    epc,              \* position: "idle", "file" (before line 107), "std" (before line 114), "returned", "raised"
    percent,          \* the percent argument
    \* ---- tools/separate.py ----
    tpc,              \* position in main: "which", "call", "returned"
    demucs_exe,       \* what shutil.which("demucs") returns: "None" or "path"
    subprocess_call,  \* what subprocess.call(cmd) does: [raises : BOOLEAN, rc : Int]
    started,          \* subprocess.call has been entered
    returned,         \* value main returned: [set : BOOLEAN, val : Int]
    \* ---- output renaming ----
    output_dir_abs,   \* output_dir is an absolute path
    output_files,     \* the list separator.separate returned
    fs,               \* paths of the files that exist
    result,           \* the dict result, as its (stem, path) pairs
    ops,              \* what the loop has done so far: keep, remove, move, raise
    npc,              \* "loop", "done", "raised"
    ni,               \* index of the current output_file
    nk,               \* index of the current stem in stem_mapping
    \* ---- backend use of one process ----
    first_use,        \* os.environ's masking when the process first imported a backend library and
                      \* when it first called get_available_devices ("never": not yet)
    rocminfo_runs,    \* times the process has run the rocminfo command
    \* ---- two concurrent calls of emit_progress ----
    emit_at,          \* per caller, the statement it executes next: "idle", "write_file" (line 109),
                      \* "flush_file" (110), "write_std" (116), "flush_std" (117), "returned"
    emit_arg          \* per caller, the percent it passes

mainVars == <<args, status, exit_line, progress_file, sys_stdout>>
jobVars == <<fpc, fsub, exc, loading_done, processing_done, lpc, lElapsed, lline,
             ppc, pElapsed, pline, estimates, last_percent, estimated_time, outFile, outStd, done_txt,
             mainVars>>
devVars == <<env, call, request, ret, DEVICE_SKIPS, device_arg, environ>>
emitVars == <<epc, percent>>
toolVars == <<tpc, demucs_exe, subprocess_call, started, returned>>
normVars == <<output_dir_abs, output_files, fs, result, ops, npc, ni, nk>>
procVars == <<first_use, rocminfo_runs>>
writeVars == <<emit_at, emit_arg>>
restVars == <<procVars, writeVars>>
otherVars == <<emitVars, toolVars, normVars, restVars>>
vars == <<jobVars, devVars, otherVars>>

Min(a, b) == IF a < b THEN a ELSE b
Max(a, b) == IF a > b THEN a ELSE b

RECURSIVE Pow2(_)
Pow2(k) == IF k = 0 THEN 1 ELSE 2 * Pow2(k - 1)

(***************************************************************************)
(* Bounds of the model.                                                    *)
(***************************************************************************)
\* elapsed times are sampled at 0..MaxHalfLives half-lives and at the saturation point
MaxHalfLives == 1
\* loop iterations the two estimator threads make at most, together
MaxEstimates == 2

(***************************************************************************)
(* Estimator arithmetic.  Python floats are IEEE doubles: 1 - 0.5**h is    *)
(* exactly 1 - 2^-h for h <= 53 and rounds to 1.0 from h = 54 on, so       *)
(* int(a + ratio*b) is a + floor(b*(2^h - 1)/2^h) below the saturation     *)
(* point and a + b from it on.  For h >= PowCap the quotient no longer     *)
(* changes (b/2^h < 1), which keeps the integers small.                    *)
(***************************************************************************)
HalfLife == 15
SaturationHalfLives == 54
PowCap == 8

\* int(a + (1 - 0.5 ** h) * b) for h = 0, 1, 2, ... whole half-lives
DecayInt(a, b, h) ==
    IF h >= SaturationHalfLives THEN a + b
    ELSE LET k == Min(h, PowCap) IN a + ((b * (Pow2(k) - 1)) \div Pow2(k))

\* half-lives at which the clock is sampled
HalfLifeSamples == (0 .. MaxHalfLives) \cup {SaturationHalfLives}

(***************************************************************************)
(* Device catalog: get_available_devices (lines 120-276).                  *)
(*                                                                         *)
(* A device id is its backend family and its index: "cuda:1" is            *)
(* [fam |-> "cuda", idx |-> 1], and an id without ":<index>" ("auto",      *)
(* "cpu", "mps", "directml", "cuda") has idx = NoIdx.  A device's name is  *)
(* the text the code builds it from and the index it puts into it.         *)
(***************************************************************************)
\* cuda devices the driver reports at most
MaxCuda == 6
\* DirectML devices at most
MaxDml == 2

NoIdx == -1
Id(fam, idx) == [fam |-> fam, idx |-> idx]
Auto == Id("auto", NoIdx)
Cpu == Id("cpu", NoIdx)
Mps == Id("mps", NoIdx)
Cuda(i) == Id("cuda", i)

\* lines 125-128: the two entries every catalog starts with
StableDevices ==
    << [id |-> Auto, name |-> <<"Auto", NoIdx>>, type |-> "auto"],
       [id |-> Cpu, name |-> <<"CPU", NoIdx>>, type |-> "cpu"] >>

\* lines 227-231: the entry of cuda device i; name is torch.cuda.get_device_name(i)
CudaDevice(i) == [id |-> Cuda(i), name |-> <<"get_device_name", i>>, type |-> "cuda"]

\* lines 221-225: the skip record of cuda device i
SkipRecord(i, arch) == [id |-> Cuda(i), name |-> <<"get_device_name", i>>, reason |-> arch]

\* lines 236-240
MpsDevice == [id |-> Mps, name |-> <<"Apple MPS", NoIdx>>, type |-> "mps"]

\* lines 258-262: "directml:i" if dml_device_count > 1 else "directml"
DmlDevice(i, count) ==
    [id |-> Id("directml", IF count > 1 THEN i ELSE NoIdx),
     name |-> <<"DirectML GPU", i>>, type |-> "directml"]

IsGfx(arch) == arch \in {"gfx1100", "gfx1103"}

\* _device_rocm_arch, lines 184-198: the rocminfo list by index, else the torch
\* property; "none" when the property query raises or has no architecture
DeviceRocmArch(e, i) ==
    IF i < Len(e.rocminfo) THEN e.rocminfo[i + 1]
    ELSE IF e.props[i + 1] = "raise" THEN "none" ELSE e.props[i + 1]

\* gcnArch can be an integer: not a string (line 201)
IsStr(arch) == arch # "int"

\* line 203: arch.split(":", 1)[0].strip() drops the feature suffix of gcnArchName
ArchBase(arch) == IF arch = "gfx1103:xnack-" THEN "gfx1103" ELSE arch

\* mutant: a device whose architecture or kernel library cannot be examined is rejected
RocblasFailClosed(e, arch) ==
    IF arch = "none" \/ ~IsStr(arch) THEN FALSE
    ELSE IF ~IsGfx(ArchBase(arch)) THEN TRUE
    ELSE IF e.libdir = "missing" THEN TRUE
    ELSE IF e.libdir = "raises" THEN FALSE
    ELSE ArchBase(arch) \in e.libArches

\* _rocblas_has_tensile_for_arch, lines 200-213
RocblasHasTensileForArch(e, arch) ==
    IF arch = "none" \/ ~IsStr(arch) THEN TRUE
    ELSE IF ~IsGfx(ArchBase(arch)) THEN TRUE
    ELSE IF e.libdir = "missing" THEN TRUE
    ELSE IF e.libdir = "raises" THEN TRUE
    ELSE ArchBase(arch) \in e.libArches

\* mutant: the skipped device is also appended (the continue of line 226 is missing)
RECURSIVE CudaLoopNoContinue(_, _, _, _)
CudaLoopNoContinue(e, i, devices, skips) ==
    IF i >= e.cudaCount THEN [raised |-> FALSE, devices |-> devices, skips |-> skips]
    ELSE IF e.nameRaises = i THEN [raised |-> TRUE, devices |-> devices, skips |-> skips]
    ELSE IF e.rocm /\ ~RocblasHasTensileForArch(e, DeviceRocmArch(e, i))
         THEN CudaLoopNoContinue(e, i + 1, Append(devices, CudaDevice(i)),
                                 Append(skips, SkipRecord(i, DeviceRocmArch(e, i))))
    ELSE CudaLoopNoContinue(e, i + 1, Append(devices, CudaDevice(i)), skips)

\* mutant: the rocBLAS validation is applied on every backend, not on ROCm only
RECURSIVE CudaLoopAnyBackend(_, _, _, _)
CudaLoopAnyBackend(e, i, devices, skips) ==
    IF i >= e.cudaCount THEN [raised |-> FALSE, devices |-> devices, skips |-> skips]
    ELSE IF e.nameRaises = i THEN [raised |-> TRUE, devices |-> devices, skips |-> skips]
    ELSE IF ~RocblasHasTensileForArch(e, DeviceRocmArch(e, i))
         THEN CudaLoopAnyBackend(e, i + 1, devices, Append(skips, SkipRecord(i, DeviceRocmArch(e, i))))
    ELSE CudaLoopAnyBackend(e, i + 1, Append(devices, CudaDevice(i)), skips)

\* lines 216-231: the loop over range(torch.cuda.device_count()) from index i on;
\* an exception of get_device_name leaves the loop and the function
RECURSIVE CudaLoop(_, _, _, _)
CudaLoop(e, i, devices, skips) ==
    IF i >= e.cudaCount THEN [raised |-> FALSE, devices |-> devices, skips |-> skips]
    ELSE IF e.nameRaises = i THEN [raised |-> TRUE, devices |-> devices, skips |-> skips]
    ELSE IF e.rocm /\ ~RocblasHasTensileForArch(e, DeviceRocmArch(e, i))
         THEN CudaLoop(e, i + 1, devices, Append(skips, SkipRecord(i, DeviceRocmArch(e, i))))
    ELSE CudaLoop(e, i + 1, Append(devices, CudaDevice(i)), skips)

\* lines 215-231: the CUDA section; none of its queries is inside a try of its own
CudaSection(e, devices) ==
    IF e.cuda = "unavailable" THEN [raised |-> FALSE, devices |-> devices, skips |-> <<>>]
    ELSE IF e.cuda = "count_raises" THEN [raised |-> TRUE, devices |-> devices, skips |-> <<>>]
    ELSE CudaLoop(e, 0, devices, <<>>)

\* lines 233-242: the MPS probe, inside try / except Exception
MpsSection(e, devices) == IF e.mps = "yes" THEN Append(devices, MpsDevice) ELSE devices

\* lines 244-266: the DirectML probe, inside try / except ImportError / except Exception;
\* when torch_directml.device(i) raises, the entries appended before it stay in the list
RECURSIVE DmlLoop(_, _, _)
DmlLoop(e, i, devices) ==
    IF i >= e.dmlCount \/ e.dmlRaises = i THEN devices
    ELSE DmlLoop(e, i + 1, Append(devices, DmlDevice(i, e.dmlCount)))

DmlSection(e, devices) == IF e.dml = "ok" THEN DmlLoop(e, 0, devices) ELSE devices

\* get_available_devices, lines 120-276: raised, the returned list, and _DEVICE_SKIPS
\* as the call leaves it.  import torch failing is the ImportError of line 273.
GetAvailableDevices(e) ==
    IF e.torch = "absent" THEN [raised |-> FALSE, devices |-> StableDevices, skips |-> <<>>]
    ELSE LET c == CudaSection(e, StableDevices) IN
         IF c.raised THEN [raised |-> TRUE, devices |-> <<>>, skips |-> c.skips]
         ELSE [raised |-> FALSE,
               devices |-> DmlSection(e, MpsSection(e, c.devices)),
               skips |-> c.skips]

(***************************************************************************)
(* Device selector: select_device (lines 278-325).                         *)
(***************************************************************************)
Ids(seq) == {seq[i].id : i \in 1 .. Len(seq)}
GpuTypes == {"cuda", "directml", "mps"}

Entries(seq) == {seq[i] : i \in 1 .. Len(seq)}

\* for dev in available: if <dev in S>: return dev -- the first entry of seq that is in S
First(seq, S) == seq[CHOOSE i \in 1 .. Len(seq) : seq[i] \in S /\ \A j \in 1 .. i - 1 : seq[j] \notin S]

Chosen(dev, warnings) == [id |-> dev.id, name |-> dev.name, warnings |-> warnings]
ChosenCpu(warnings) == [id |-> Cpu, name |-> <<"CPU", NoIdx>>, warnings |-> warnings]

\* line 289: the entries whose type is a GPU backend
GpuEntries(available) == {d \in Entries(available) : d.type \in GpuTypes}
CudaOnly(available) == {d \in Entries(available) : d.type = "cuda"}

\* mutant: only cuda counts as a GPU
SelectAutoCudaOnly(available) ==
    IF CudaOnly(available) # {}
    THEN Chosen(First(available, CudaOnly(available)), <<>>)
    ELSE ChosenCpu(<<>>)

\* lines 286-291
SelectAuto(available) ==
    IF GpuEntries(available) # {}
    THEN Chosen(First(available, GpuEntries(available)), <<>>)
    ELSE ChosenCpu(<<>>)

\* lines 296-303: the backend is asked again, inside try / except Exception
SelectMps(e) ==
    IF e.mps = "yes" THEN Chosen(MpsDevice, <<>>) ELSE ChosenCpu(<<"mps_not_available">>)

\* requested_device.startswith("cuda:"), line 311
StartsWithCudaColon(req) == req.fam = "cuda" /\ req.idx # NoIdx

\* line 319: the catalog entries of type cuda whose id starts with "cuda:"
CudaEntries(available) == {d \in Entries(available) : d.type = "cuda" /\ StartsWithCudaColon(d.id)}

\* mutant: the skip-reason warning is printed for every unavailable cuda request
SkipWarningAlways(skips, req) == <<"skip_reason">>

\* lines 312-317: the warning that cites the skip reason
SkipWarning(skips, req) == IF req \in Ids(skips) THEN <<"skip_reason">> ELSE <<>>

\* mutant: an unavailable cuda request is handed back as it was asked for
UnresolvedNoFallback(available, skips, req) ==
    IF StartsWithCudaColon(req)
    THEN [id |-> req, name |-> <<"get_device_name", req.idx>>, warnings |-> SkipWarning(skips, req)]
    ELSE ChosenCpu(<<"fallback_cpu">>)

\* mutant: the fallback warning is printed ahead of the skip reason
UnresolvedFallbackFirst(available, skips, req) ==
    IF StartsWithCudaColon(req) /\ CudaEntries(available) # {}
    THEN Chosen(First(available, CudaEntries(available)), <<"fallback_cuda">> \o SkipWarning(skips, req))
    ELSE ChosenCpu(<<"fallback_cpu">>
                   \o (IF StartsWithCudaColon(req) THEN SkipWarning(skips, req) ELSE <<>>))

\* lines 310-325: the request matched no branch
Unresolved(available, skips, req) ==
    IF StartsWithCudaColon(req) /\ CudaEntries(available) # {}
    THEN Chosen(First(available, CudaEntries(available)), SkipWarning(skips, req) \o <<"fallback_cuda">>)
    ELSE ChosenCpu((IF StartsWithCudaColon(req) THEN SkipWarning(skips, req) ELSE <<>>)
                   \o <<"fallback_cpu">>)

\* mutant: cpu is treated like auto
SelectPolicyCpuAsAuto(e, available, skips, req) ==
    IF req \in {Auto, Cpu} THEN SelectAuto(available)
    ELSE IF req = Mps THEN SelectMps(e)
    ELSE IF req \in Ids(available) THEN Chosen(First(available, {d \in Entries(available) : d.id = req}), <<>>)
    ELSE Unresolved(available, skips, req)

\* lines 286-325
SelectPolicy(e, available, skips, req) ==
    IF req = Auto THEN SelectAuto(available)
    ELSE IF req = Cpu THEN ChosenCpu(<<>>)
    ELSE IF req = Mps THEN SelectMps(e)
    ELSE IF req \in Ids(available) THEN Chosen(First(available, {d \in Entries(available) : d.id = req}), <<>>)
    ELSE Unresolved(available, skips, req)

NoChoice == [id |-> Id("none", NoIdx), name |-> <<"none", NoIdx>>, warnings |-> <<>>]

\* select_device, lines 278-325: import torch (line 280) and the enumeration
\* (line 282) come before the request is looked at
SelectDevice(e, req) ==
    IF e.torch = "absent"
    THEN [raised |-> TRUE, available |-> <<>>, skips |-> DEVICE_SKIPS, choice |-> NoChoice]
    ELSE LET en == GetAvailableDevices(e) IN
         IF en.raised
         THEN [raised |-> TRUE, available |-> <<>>, skips |-> en.skips, choice |-> NoChoice]
         ELSE [raised |-> FALSE, available |-> en.devices, skips |-> en.skips,
               choice |-> SelectPolicy(e, en.devices, en.skips, req)]

(***************************************************************************)
(* Backend states and requests the device functions are applied to.        *)
(***************************************************************************)
Arches == {"gfx1100", "gfx1103"}
Lists(n, S) == [1 .. n -> S]

\* ROCm machines with every pattern of supported (gfx1100) and unsupported (gfx1103)
\* GPUs: rocminfo lists them all and rocBLAS ships kernels for gfx1100 only
ValidationEnvs ==
    { [torch |-> "ok", rocm |-> TRUE, cuda |-> "ok", cudaCount |-> Len(r), nameRaises |-> NoIdx,
       rocminfo |-> r, props |-> [i \in 1 .. Len(r) |-> "none"],
       libdir |-> "ok", libArches |-> {"gfx1100"}, mps |-> m,
       dml |-> "ok", dmlCount |-> d, dmlRaises |-> NoIdx] :
      r \in UNION {Lists(n, Arches) : n \in 0 .. MaxCuda}, m \in {"no", "yes"}, d \in 0 .. MaxDml }

\* probe outcomes of each backend: library absent, a query raises, query succeeds
ProbeEnvs ==
    { [torch |-> t, rocm |-> FALSE, cuda |-> c.cuda, cudaCount |-> c.count, nameRaises |-> c.at,
       rocminfo |-> <<>>, props |-> [i \in 1 .. c.count |-> "none"],
       libdir |-> "missing", libArches |-> {}, mps |-> m,
       dml |-> d.dml, dmlCount |-> d.count, dmlRaises |-> d.at] :
      t \in {"absent", "ok"},
      c \in {[cuda |-> "unavailable", count |-> 0, at |-> NoIdx],
             [cuda |-> "count_raises", count |-> 0, at |-> NoIdx]}
            \cup {[cuda |-> "ok", count |-> n, at |-> a] : n \in 0 .. 2, a \in {NoIdx, 0, 1}},
      m \in {"absent", "raises", "no", "yes"},
      d \in {[dml |-> "absent", count |-> 0, at |-> NoIdx], [dml |-> "raises", count |-> 0, at |-> NoIdx]}
            \cup {[dml |-> "ok", count |-> n, at |-> a] : n \in 0 .. MaxDml, a \in {NoIdx, 1}} }

\* what torch.cuda.get_device_properties(i) gives for the architecture: it raises, has
\* none, has an integer gcnArch, a name that is no gfx architecture, or a gfx name
PropArches == {"raise", "none", "int", "sm_90", "gfx1100", "gfx1103:xnack-"}

\* machines where rocminfo gave no list (absent, timed out, no GPU agent), so the
\* architecture comes from the torch properties, and the rocBLAS library directory
\* is there, is missing, or cannot be listed; torch is a ROCm build (torch.version.hip
\* set, on Linux) or it is not
LookupEnvs ==
    { [torch |-> "ok", rocm |-> h, cuda |-> "ok", cudaCount |-> Len(q), nameRaises |-> NoIdx,
       rocminfo |-> <<>>, props |-> q,
       libdir |-> l, libArches |-> {"gfx1100"}, mps |-> "no",
       dml |-> "absent", dmlCount |-> 0, dmlRaises |-> NoIdx] :
      q \in Lists(1, PropArches) \cup Lists(2, PropArches), l \in {"ok", "missing", "raises"},
      h \in BOOLEAN }

DevEnvs == ValidationEnvs \cup ProbeEnvs \cup LookupEnvs

Requests ==
    {Auto, Cpu, Mps, Id("cuda", NoIdx), Id("directml", NoIdx), Id("rocm", 0)}
    \cup {Cuda(i) : i \in {0, 1, 5, MaxCuda}}
    \cup {Id("directml", i) : i \in {0, 1, MaxDml}}

NoReturn == [raised |-> FALSE, available |-> <<>>, skips |-> <<>>, choice |-> NoChoice]

\* what torch sees of the backends: with CUDA_VISIBLE_DEVICES / HIP_VISIBLE_DEVICES empty
\* (main, lines 762-764) torch.cuda.is_available() is False; MPS and DirectML do not
\* read these variables
Visible(e, masking) ==
    IF masking = "empty" THEN [e EXCEPT !.cuda = "unavailable", !.cudaCount = 0] ELSE e

\* mutant: main goes on without touching os.environ
MainMaskNothing ==
    /\ environ = "startup"
    /\ environ' = "unset"
    /\ UNCHANGED <<env, call, request, ret, DEVICE_SKIPS, device_arg, jobVars, otherVars>>

\* main, lines 762-765: --device cpu empties CUDA_VISIBLE_DEVICES, HIP_VISIBLE_DEVICES
\* and ROCR_VISIBLE_DEVICES before torch is imported
MainMaskGpus ==
    /\ environ = "startup"
    /\ environ' = (IF device_arg = "cpu" THEN "empty" ELSE "unset")
    /\ UNCHANGED <<env, call, request, ret, DEVICE_SKIPS, device_arg, jobVars, otherVars>>

\* a call of get_available_devices (as list_devices makes it, line 648)
CallGetAvailableDevices ==
    /\ environ # "startup"
    /\ LET r == GetAvailableDevices(Visible(env, environ)) IN
          /\ ret' = [raised |-> r.raised, available |-> r.devices, skips |-> r.skips,
                     choice |-> NoChoice]
          /\ DEVICE_SKIPS' = r.skips
    /\ call' = "enumerate"
    /\ request' = Id("none", NoIdx)
    /\ UNCHANGED <<env, device_arg, environ, jobVars, otherVars>>

\* a call of select_device (line 362)
CallSelectDevice ==
    /\ environ # "startup"
    /\ \E req \in Requests :
          LET r == SelectDevice(Visible(env, environ), req) IN
          /\ ret' = r
          /\ DEVICE_SKIPS' = r.skips
          /\ request' = req
    /\ call' = "select"
    /\ UNCHANGED <<env, device_arg, environ, jobVars, otherVars>>

DevInit ==
    /\ env \in DevEnvs
    /\ call = "none"
    /\ request = Id("none", NoIdx)
    /\ ret = NoReturn
    /\ DEVICE_SKIPS = <<>>
    /\ device_arg \in {"auto", "cpu"}
    /\ environ = "startup"

(***************************************************************************)
(* Phase estimators (pure parts).                                          *)
(***************************************************************************)
\* mutant: the floor of 1 is forgotten
LoadingPercentNoFloor(elapsed) == Min(10, DecayInt(0, 9, elapsed \div HalfLife))

\* loading_progress_thread, lines 395-398: elapsed in seconds, sampled at whole half-lives
LoadingPercent(elapsed) == Min(10, DecayInt(1, 9, elapsed \div HalfLife))

\* progress_thread, lines 544-548
ProcessingRaw(elapsed, est) ==
    IF est > 0 THEN DecayInt(12, 76, elapsed \div est)
    ELSE Min(88, 12 + elapsed * 2)

\* progress_thread, lines 544-550: clamped against last_percent and 88
ProcessingPercent(last, elapsed, est) == Min(88, Max(last, ProcessingRaw(elapsed, est)))

\* audio durations (seconds) sf.info reports; 180 is also the fallback when sf.info raises
Durations == {0, 180}

\* separate_stems, lines 526-531: duration * 4.0 on cpu, duration * 0.5 otherwise
EstimatedTime(dev, duration) == IF dev = "cpu" THEN duration * 4 ELSE duration \div 2

\* values time.time() - start_time takes in the loading thread
LoadingClock == {h * HalfLife : h \in HalfLifeSamples}

\* values time.time() - start_time takes in the processing thread: whole half-lives
\* of estimated_time, or seconds when estimated_time is 0
ProcessingClock(est) == {h * (IF est > 0 THEN est ELSE 1) : h \in HalfLifeSamples}

(***************************************************************************)
(* Progress reporter.  A line is its percent and its emitter; the stage    *)
(* text of a line names the emitter ("Loading model (..s)" is the loading  *)
(* thread, "Processing (..)" the processing thread).  The JSON result that *)
(* main prints to stdout is the line Json.                                 *)
(***************************************************************************)
Line(pct, src) == [pct |-> pct, src |-> src]
Json == [pct |-> -1, src |-> "json"]

\* A sink is what its write and its flush do: "ok", or the exception they raise
\* (OSError: disk full, broken pipe; ValueError: closed file; AttributeError:
\* sys.stdout is None).
WriteOutcomes == {"ok", "OSError", "ValueError", "AttributeError"}
SinkStates == [write : WriteOutcomes, flush : WriteOutcomes]
OkSink == [write |-> "ok", flush |-> "ok"]
\* _progress_file is None (line 67; no output_dir was given)
NotConfigured == [write |-> "none", flush |-> "none"]

\* mutant: the handlers name OSError only
CatchesOSErrorOnly(handler, x) == x = "OSError"

\* except <handler>: the exceptions a handler catches; all three are subclasses of Exception
Catches(handler, x) == handler = "Exception" \/ handler = x

\* sink.write(line); sink.flush() inside try / except Exception: pass (lines 108-112 and
\* 115-118): whether the line reached the sink, and the exception that leaves the try
\* statement ("ok": none)
TryWrite(sink) ==
    LET x == IF sink.write # "ok" THEN sink.write ELSE sink.flush IN
    [wrote |-> sink.write = "ok",
     exc |-> IF x = "ok" \/ Catches("Exception", x) THEN "ok" ELSE x]

\* emit_progress, lines 107-112: the write to _progress_file, skipped when it is None
WriteFile(pct, src) ==
    outFile' = IF progress_file # NotConfigured /\ TryWrite(progress_file).wrote
               THEN Append(outFile, Line(pct, src)) ELSE outFile
\* emit_progress, lines 114-118: the write to sys.stdout
WriteStdout(pct, src) ==
    outStd' = IF TryWrite(sys_stdout).wrote THEN Append(outStd, Line(pct, src)) ELSE outStd

(***************************************************************************)
(* Foreground: main (lines 736-813) calling separate_stems (355-617).      *)
(***************************************************************************)
\* the command lines main tells apart: the first of --check, --list-devices,
\* --list-devices-machine, --list-models that is set ("run": none), the two optional
\* positionals (output_dir can only follow input), and os.path.exists(input).
\* --device is device_arg: the job run reads it only inside select_device.
MainArgs ==
    { a \in [mode : {"check", "list_devices", "list_devices_machine", "list_models", "run"},
              input : {"none", "not_found", "found"},
              output_dir : BOOLEAN] :
      a.input = "none" => ~a.output_dir }

\* the argument of each sys.exit call of main, by its line
ExitArg(line) ==
    CASE line = 771 -> 0
      [] line = 773 -> 1
      [] line = 777 -> 0
      [] line = 780 -> 0
      [] line = 789 -> 0
      [] line = 793 -> 1
      [] line = 797 -> 1
      [] line = 813 -> 1

\* sys.exit(ExitArg(line)) at the given line
SysExit(line) ==
    /\ fpc' = (IF ExitArg(line) = 0 THEN "exit0" ELSE "exit1")
    /\ status' = ExitArg(line)
    /\ exit_line' = line

mainRest == <<fsub, exc, loading_done, processing_done, lpc, lElapsed, lline,
              ppc, pElapsed, pline, estimates, last_percent, estimated_time, outFile, outStd,
              done_txt, args, progress_file, sys_stdout>>

\* line 757: _setup_reaper_io opens the sinks; open(stdout_path, "w") (line 87)
\* truncates stdout.txt, and done.txt is only given a name (line 84).  The masking of
\* the GPUs for --device cpu (lines 762-765) is MainMaskGpus
FgSetupIo ==
    /\ fpc = "setup_io"
    /\ fpc' = "dispatch"
    /\ outFile' = (IF args.output_dir THEN <<>> ELSE outFile)
    /\ UNCHANGED <<fsub, exc, loading_done, processing_done, lpc, lElapsed, lline,
                   ppc, pElapsed, pline, estimates, last_percent, estimated_time, outStd,
                   done_txt, mainVars, devVars, otherVars>>

\* lines 767-773: --check
FgCheck ==
    /\ fpc = "dispatch" /\ args.mode = "check"
    /\ \E installed \in BOOLEAN : SysExit(IF installed THEN 771 ELSE 773)
    /\ UNCHANGED <<mainRest, devVars, otherVars>>

\* lines 775-780: --list-devices, --list-devices-machine
FgListDevices ==
    /\ fpc = "dispatch" /\ args.mode \in {"list_devices", "list_devices_machine"}
    /\ SysExit(IF args.mode = "list_devices" THEN 777 ELSE 780)
    /\ UNCHANGED <<mainRest, devVars, otherVars>>

\* lines 782-789: --list-models
FgListModels ==
    /\ fpc = "dispatch" /\ args.mode = "list_models"
    /\ SysExit(789)
    /\ UNCHANGED <<mainRest, devVars, otherVars>>

\* lines 791-793: input or output_dir is missing
FgUsage ==
    /\ fpc = "dispatch" /\ args.mode = "run"
    /\ args.input = "none" \/ ~args.output_dir
    /\ SysExit(793)
    /\ UNCHANGED <<mainRest, devVars, otherVars>>

\* lines 795-797: the input file does not exist
FgInputNotFound ==
    /\ fpc = "dispatch" /\ args.mode = "run"
    /\ args.input = "not_found" /\ args.output_dir
    /\ SysExit(797)
    /\ UNCHANGED <<mainRest, devVars, otherVars>>

\* lines 799-800: separate_stems is called
FgEnter ==
    /\ fpc = "dispatch" /\ args.mode = "run"
    /\ args.input = "found" /\ args.output_dir
    /\ fpc' = "emit0"
    /\ UNCHANGED <<mainRest, status, exit_line, devVars, otherVars>>

EmitSteps == {"emit0", "emit1", "emit3", "emit11", "emit92", "emit100"}

FgPercent(pc) ==
    CASE pc = "emit0" -> 0
      [] pc = "emit1" -> 1
      [] pc = "emit3" -> 3
      [] pc = "emit11" -> 11
      [] pc = "emit92" -> 92
      [] pc = "emit100" -> 100

\* the statement after each emit_progress call of the foreground
AfterEmit(pc) ==
    CASE pc = "emit0" -> "select_device"
      [] pc = "emit1" -> "construct"
      [] pc = "emit3" -> "load_model"
      [] pc = "emit11" -> "start_processing"
      [] pc = "emit92" -> "rename"
      [] pc = "emit100" -> "print_json"

\* the interpreter has shut down: daemon threads no longer run
Exited == fpc \in {"exit0", "exit1"}

fgRest == <<exc, loading_done, processing_done, lpc, lElapsed, lline,
            ppc, pElapsed, pline, estimates, last_percent, estimated_time, done_txt>>

\* emit_progress called by the foreground: first the progress file ...
FgEmitFile ==
    /\ fpc \in EmitSteps /\ fsub = "file"
    /\ WriteFile(FgPercent(fpc), "fg")
    /\ fsub' = "std"
    /\ UNCHANGED <<fpc, outStd, fgRest, mainVars, devVars, otherVars>>

\* ... then stdout
FgEmitStd ==
    /\ fpc \in EmitSteps /\ fsub = "std"
    /\ WriteStdout(FgPercent(fpc), "fg")
    /\ fpc' = AfterEmit(fpc)
    /\ fsub' = "file"
    /\ UNCHANGED <<outFile, fgRest, mainVars, devVars, otherVars>>

\* a foreground step that changes only fpc
FgGoto(from, to) ==
    /\ fpc = from
    /\ fpc' = to
    /\ UNCHANGED <<fsub, exc, loading_done, processing_done, lpc, lElapsed, lline,
                   ppc, pElapsed, pline, estimates, last_percent, estimated_time, outFile, outStd,
                   done_txt, mainVars, devVars, otherVars>>

\* lines 361-386: select_device and the second enumeration return ...
FgSelectDevice == FgGoto("select_device", "start_loading")

\* ... or raise (import torch, a CUDA query): the exception reaches main's handler
FgSelectDeviceRaises == FgGoto("select_device", "except")

\* lines 389-411: the loading thread is created and started
FgStartLoading ==
    /\ fpc = "start_loading"
    /\ lpc' = "check"
    /\ fpc' = "emit1"
    /\ UNCHANGED <<fsub, exc, loading_done, processing_done, lElapsed, lline,
                   ppc, pElapsed, pline, estimates, last_percent, estimated_time, outFile, outStd,
                   done_txt, mainVars, devVars, otherVars>>

\* lines 415-503: Separator(...) is constructed, or raises
FgConstruct == FgGoto("construct", "emit3")
FgConstructRaises == FgGoto("construct", "except")

\* line 508: separator.load_model returns, or raises (no handler in separate_stems)
FgLoadModel == FgGoto("load_model", "set_loading_done")
FgLoadModelRaises == FgGoto("load_model", "except")

\* line 510: loading_done.set()
FgSetLoadingDone ==
    /\ fpc = "set_loading_done"
    /\ loading_done' = TRUE
    /\ fpc' = "join_loading"
    /\ UNCHANGED <<fsub, exc, processing_done, lpc, lElapsed, lline,
                   ppc, pElapsed, pline, estimates, last_percent, estimated_time, outFile, outStd,
                   done_txt, mainVars, devVars, otherVars>>

\* line 511: loading_worker.join(timeout=1.0) returns because the thread ended
FgJoinLoading == lpc = "dead" /\ FgGoto("join_loading", "emit11")
\* mutant: join() without a timeout returns only when the thread has ended
FgJoinLoadingNoTimeout == lpc = "dead" /\ FgGoto("join_loading", "emit11")
\* line 511: ... or because one second passed while the thread was still running
FgJoinLoadingTimeout == lpc # "dead" /\ FgGoto("join_loading", "emit11")

\* lines 515-573: the duration is read, estimated_time computed, the processing thread started
FgStartProcessing ==
    /\ fpc = "start_processing"
    /\ \E dev \in {"cpu", "gpu"}, d \in Durations : estimated_time' = EstimatedTime(dev, d)
    /\ ppc' = "check"
    /\ fpc' = "separate"
    /\ UNCHANGED <<fsub, exc, loading_done, processing_done, lpc, lElapsed, lline,
                   pElapsed, pline, estimates, last_percent, outFile, outStd, done_txt, mainVars, devVars, otherVars>>

\* lines 576-577: separator.separate returns, or raises; either way the finally block runs
FgSeparate ==
    /\ fpc = "separate"
    /\ \E raises \in BOOLEAN : exc' = raises
    /\ fpc' = "set_processing_done"
    /\ UNCHANGED <<fsub, loading_done, processing_done, lpc, lElapsed, lline,
                   ppc, pElapsed, pline, estimates, last_percent, estimated_time, outFile, outStd,
                   done_txt, mainVars, devVars, otherVars>>

\* line 579: processing_done.set()
FgSetProcessingDone ==
    /\ fpc = "set_processing_done"
    /\ processing_done' = TRUE
    /\ fpc' = "join_processing"
    /\ UNCHANGED <<fsub, exc, loading_done, lpc, lElapsed, lline,
                   ppc, pElapsed, pline, estimates, last_percent, estimated_time, outFile, outStd,
                   done_txt, mainVars, devVars, otherVars>>

\* after the finally block: the exception of separate propagates, or line 582 follows
AfterFinally == IF exc THEN "except" ELSE "emit92"

\* line 580: progress_worker.join(timeout=1.0) returns because the thread ended
FgJoinProcessing == ppc = "dead" /\ FgGoto("join_processing", AfterFinally)
\* line 580: ... or because one second passed
FgJoinProcessingTimeout == ppc # "dead" /\ FgGoto("join_processing", AfterFinally)

\* lines 584-614: the raw output files are renamed
FgRename == FgGoto("rename", "emit100")

\* main, line 801: print(json.dumps(output_files))
FgPrintJson ==
    /\ fpc = "print_json"
    /\ outStd' = Append(outStd, Json)
    /\ fpc' = "write_done"
    /\ UNCHANGED <<fsub, outFile, fgRest, mainVars, devVars, otherVars>>

\* main, line 801: print raises because stdout has stopped taking writes (its reader
\* closed the pipe of an unbuffered stdout, the terminal is gone); print is inside the
\* try of line 799, so the exception reaches the handler of line 806
FgPrintJsonRaises ==
    /\ fpc = "print_json"
    /\ sys_stdout' = [write |-> "OSError", flush |-> "OSError"]
    /\ fpc' = "except"
    /\ UNCHANGED <<fsub, outFile, outStd, fgRest, args, status, exit_line, progress_file,
                   devVars, otherVars>>

\* main, lines 803-804: write_done("DONE"); main returns
FgWriteDone ==
    /\ fpc = "write_done"
    /\ done_txt' = "DONE"
    /\ fpc' = "shutdown0"
    /\ UNCHANGED <<fsub, exc, loading_done, processing_done, lpc, lElapsed, lline,
                   ppc, pElapsed, pline, estimates, last_percent, estimated_time, outFile, outStd, mainVars, devVars, otherVars>>

\* main, lines 806-812: the handler writes the ERROR marker
FgWriteError ==
    /\ fpc = "except"
    /\ done_txt' = "ERROR"
    /\ fpc' = "shutdown1"
    /\ UNCHANGED <<fsub, exc, loading_done, processing_done, lpc, lElapsed, lline,
                   ppc, pElapsed, pline, estimates, last_percent, estimated_time, outFile, outStd, mainVars, devVars, otherVars>>

\* the process ends: status 0 after main returned ...
FgExit0 ==
    /\ fpc = "shutdown0"
    /\ fpc' = "exit0"
    /\ status' = 0
    /\ UNCHANGED <<mainRest, exit_line, devVars, otherVars>>

\* ... or sys.exit(1) at line 813
FgExit1 ==
    /\ fpc = "shutdown1"
    /\ SysExit(813)
    /\ UNCHANGED <<mainRest, devVars, otherVars>>

(***************************************************************************)
(* loading_progress_thread, lines 392-408.                                 *)
(***************************************************************************)
\* line 394: the loop test finds loading_done set and the thread ends
LoadExit ==
    /\ lpc = "check" /\ ~Exited
    /\ loading_done
    /\ lpc' = "dead"
    /\ UNCHANGED <<fpc, fsub, exc, loading_done, processing_done, lElapsed, lline,
                   ppc, pElapsed, pline, estimates, last_percent, estimated_time, outFile, outStd,
                   done_txt, mainVars, devVars, otherVars>>

\* lines 393-399: the loop test passes, the clock is read, percent computed; the first
\* reading follows start_time = time.time() at once and is 0, later readings are larger
LoadCompute ==
    /\ lpc = "check" /\ ~Exited
    /\ ~loading_done
    /\ estimates < MaxEstimates
    /\ \E e \in LoadingClock :
          /\ IF lElapsed < 0 THEN e = 0 ELSE e > lElapsed
          /\ lElapsed' = e
          /\ lline' = LoadingPercent(e)
    /\ estimates' = estimates + 1
    /\ lpc' = "file"
    /\ UNCHANGED <<fpc, fsub, exc, loading_done, processing_done,
                   ppc, pElapsed, pline, last_percent, estimated_time, outFile, outStd,
                   done_txt, mainVars, devVars, otherVars>>

\* lines 401-406, emit_progress: the progress file ...
LoadEmitFile ==
    /\ lpc = "file" /\ ~Exited
    /\ WriteFile(lline, "load")
    /\ lpc' = "std"
    /\ UNCHANGED <<fpc, fsub, exc, loading_done, processing_done, lElapsed, lline,
                   ppc, pElapsed, pline, estimates, last_percent, estimated_time, outStd,
                   done_txt, mainVars, devVars, otherVars>>

\* ... then stdout, then loading_done.wait(0.4) (line 408)
LoadEmitStd ==
    /\ lpc = "std" /\ ~Exited
    /\ WriteStdout(lline, "load")
    /\ lpc' = "check"
    /\ UNCHANGED <<fpc, fsub, exc, loading_done, processing_done, lElapsed, lline,
                   ppc, pElapsed, pline, estimates, last_percent, estimated_time, outFile,
                   done_txt, mainVars, devVars, otherVars>>

(***************************************************************************)
(* progress_thread, lines 538-570.                                         *)
(***************************************************************************)
\* line 542: the loop test finds processing_done set and the thread ends
ProcExit ==
    /\ ppc = "check" /\ ~Exited
    /\ processing_done
    /\ ppc' = "dead"
    /\ UNCHANGED <<fpc, fsub, exc, loading_done, processing_done, lpc, lElapsed, lline,
                   pElapsed, pline, estimates, last_percent, estimated_time, outFile, outStd,
                   done_txt, mainVars, devVars, otherVars>>

\* lines 542-551: the loop test passes, the clock is read, percent computed and clamped
ProcCompute ==
    /\ ppc = "check" /\ ~Exited
    /\ ~processing_done
    /\ estimates < MaxEstimates
    /\ \E e \in ProcessingClock(estimated_time) :
          /\ IF pElapsed < 0 THEN e = 0 ELSE e > pElapsed
          /\ pElapsed' = e
          /\ pline' = ProcessingPercent(last_percent, e, estimated_time)
          /\ last_percent' = ProcessingPercent(last_percent, e, estimated_time)
    /\ estimates' = estimates + 1
    /\ ppc' = "file"
    /\ UNCHANGED <<fpc, fsub, exc, loading_done, processing_done, lpc, lElapsed, lline,
                   estimated_time, outFile, outStd, done_txt, mainVars, devVars, otherVars>>

\* line 569, emit_progress: the progress file ...
ProcEmitFile ==
    /\ ppc = "file" /\ ~Exited
    /\ WriteFile(pline, "proc")
    /\ ppc' = "std"
    /\ UNCHANGED <<fpc, fsub, exc, loading_done, processing_done, lpc, lElapsed, lline,
                   pElapsed, pline, estimates, last_percent, estimated_time, outStd,
                   done_txt, mainVars, devVars, otherVars>>

\* ... then stdout, then processing_done.wait(0.3) (line 570)
ProcEmitStd ==
    /\ ppc = "std" /\ ~Exited
    /\ WriteStdout(pline, "proc")
    /\ ppc' = "check"
    /\ UNCHANGED <<fpc, fsub, exc, loading_done, processing_done, lpc, lElapsed, lline,
                   pElapsed, pline, estimates, last_percent, estimated_time, outFile,
                   done_txt, mainVars, devVars, otherVars>>

(***************************************************************************)
(* The job run.                                                            *)
(***************************************************************************)
\* the process before main's first statement
RunStart ==
    /\ status = -1 /\ exit_line = 0
    /\ fpc = "setup_io" /\ fsub = "file"
    /\ exc = FALSE
    /\ loading_done = FALSE /\ processing_done = FALSE
    /\ lpc = "idle" /\ lElapsed = -1 /\ lline = 0
    /\ ppc = "idle" /\ pElapsed = -1 /\ pline = 0
    /\ estimates = 0
    /\ last_percent = 11
    /\ estimated_time = 0
    /\ outStd = <<>>

\* ... in a run directory that holds no file of an earlier run
JobStart == RunStart /\ outFile = <<>> /\ done_txt = "none"

\* no emit_progress call is singled out
EmitIdle == epc = "idle" /\ percent = 0

\* tools/separate.py is not running
ToolIdle ==
    /\ tpc = "returned"
    /\ demucs_exe = "None"
    /\ subprocess_call = [raises |-> FALSE, rc |-> 0]
    /\ started = FALSE
    /\ returned = [set |-> FALSE, val |-> 0]

\* the rename loop is not running
NormIdle ==
    /\ output_dir_abs = TRUE /\ output_files = <<>> /\ fs = {}
    /\ result = {} /\ ops = <<>> /\ npc = "done" /\ ni = 1 /\ nk = 1

\* the emit_progress callers that are followed statement by statement
Callers == {"fg", "loading"}

\* no backend use is recorded
ProcIdle ==
    /\ first_use = [import |-> "never", enumerate |-> "never"]
    /\ rocminfo_runs = 0

\* no pair of emit_progress calls is followed
WriteIdle ==
    /\ emit_at = [t \in Callers |-> "returned"]
    /\ emit_arg = [t \in Callers |-> 0]

RestIdle == ProcIdle /\ WriteIdle

\* a process run whose two sinks work: stdout.txt is open when output_dir was given
JobInit ==
    /\ args \in MainArgs
    /\ progress_file = (IF args.output_dir THEN OkSink ELSE NotConfigured)
    /\ sys_stdout = OkSink
    /\ JobStart

\* the job run does not look at the device catalog's variables
DevIdle ==
    /\ env = CHOOSE e \in ProbeEnvs : e.torch = "absent"
    /\ call = "none"
    /\ request = Id("none", NoIdx)
    /\ ret = NoReturn
    /\ DEVICE_SKIPS = <<>>
    /\ device_arg = "auto"
    /\ environ = "startup"

Init == JobInit /\ DevIdle /\ EmitIdle /\ ToolIdle /\ NormIdle /\ RestIdle

Next ==
    \/ FgSetupIo
    \/ FgCheck \/ FgListDevices \/ FgListModels \/ FgUsage \/ FgInputNotFound \/ FgEnter
    \/ FgEmitFile \/ FgEmitStd
    \/ FgSelectDevice \/ FgSelectDeviceRaises
    \/ FgStartLoading
    \/ FgConstruct \/ FgConstructRaises
    \/ FgLoadModel \/ FgLoadModelRaises
    \/ FgSetLoadingDone \/ FgJoinLoading \/ FgJoinLoadingTimeout
    \/ FgStartProcessing \/ FgSeparate
    \/ FgSetProcessingDone \/ FgJoinProcessing \/ FgJoinProcessingTimeout
    \/ FgRename \/ FgPrintJson \/ FgWriteDone \/ FgWriteError
    \/ FgExit0 \/ FgExit1
    \/ LoadExit \/ LoadCompute \/ LoadEmitFile \/ LoadEmitStd
    \/ ProcExit \/ ProcCompute \/ ProcEmitFile \/ ProcEmitStd

Spec == Init /\ [][Next]_vars

\* the steps of the main thread
FgNext ==
    \/ FgSetupIo
    \/ FgCheck \/ FgListDevices \/ FgListModels \/ FgUsage \/ FgInputNotFound \/ FgEnter
    \/ FgEmitFile \/ FgEmitStd
    \/ FgSelectDevice \/ FgSelectDeviceRaises
    \/ FgStartLoading
    \/ FgConstruct \/ FgConstructRaises
    \/ FgLoadModel \/ FgLoadModelRaises
    \/ FgSetLoadingDone \/ FgJoinLoading \/ FgJoinLoadingTimeout
    \/ FgStartProcessing \/ FgSeparate
    \/ FgSetProcessingDone \/ FgJoinProcessing \/ FgJoinProcessingTimeout
    \/ FgRename \/ FgPrintJson \/ FgWriteDone \/ FgWriteError
    \/ FgExit0 \/ FgExit1

\* The main thread is scheduled again and again and the calls it blocks in
\* (Separator(...), load_model, separate) return or raise; nothing is assumed of the
\* estimator threads, which are daemon threads (lines 410, 572) and may never run.
SpecFair == Spec /\ WF_vars(FgNext)

\* the command line of a job
DevArgs == {a \in MainArgs : a.mode = "run" /\ a.input = "found" /\ a.output_dir}

InitDev == DevInit /\ JobInit /\ args \in DevArgs /\ EmitIdle /\ ToolIdle /\ NormIdle /\ RestIdle
NextDev == MainMaskGpus \/ CallGetAvailableDevices \/ CallSelectDevice
SpecDev == InitDev /\ [][NextDev]_vars

(***************************************************************************)
(* One process from main's first statement to its exit, in a run directory *)
(* an earlier run may have used, with every use of the backends recorded   *)
(* and with a stdout that may stop taking writes before the result is      *)
(* printed: specification SpecMain.  The estimator threads are started and *)
(* get no processor time, so that each join returns by its timeout.        *)
(***************************************************************************)
\* lines 187-188 over the loop of lines 216-231, from device i on: the times
\* _rocm_arches_from_rocminfo is called; memo says that the function object
\* _device_rocm_arch has its attribute _rocminfo_arches
RECURSIVE RocminfoRunsFrom(_, _, _)
RocminfoRunsFrom(e, i, memo) ==
    IF i >= e.cudaCount \/ e.nameRaises = i THEN 0
    ELSE IF ~e.rocm THEN RocminfoRunsFrom(e, i + 1, memo)
    ELSE (IF memo THEN 0 ELSE 1) + RocminfoRunsFrom(e, i + 1, TRUE)

\* one call of get_available_devices: the def statement of line 184 makes a new
\* function object _device_rocm_arch, which has no attribute yet
RocminfoRuns(e) ==
    IF e.torch = "absent" \/ e.cuda # "ok" THEN 0 ELSE RocminfoRunsFrom(e, 0, FALSE)

\* the process imports a backend library, calls get_available_devices, or both, under
\* the current masking
Touch(kinds) ==
    first_use' = [k \in {"import", "enumerate"} |->
                    IF k \in kinds /\ first_use[k] = "never" THEN environ ELSE first_use[k]]

\* an exception leaves main: traceback, exit status 1 (line 816)
Uncaught ==
    /\ fpc' = "exit1"
    /\ status' = 1
    /\ exit_line' = 816

\* args.device as select_device gets it (line 800)
DeviceRequest == IF device_arg = "cpu" THEN Cpu ELSE Auto

\* the enumeration a listing made, as the last call of the device functions
Listed(r) ==
    /\ call' = "enumerate"
    /\ request' = Id("none", NoIdx)
    /\ ret' = [raised |-> r.raised, available |-> r.devices, skips |-> r.skips, choice |-> NoChoice]
    /\ DEVICE_SKIPS' = r.skips

\* lines 762-765, after _setup_reaper_io
MainMask == fpc = "dispatch" /\ MainMaskGpus

\* torch.cuda.is_available(), device_count() and get_device_name(i) of lines 627-631,
\* outside any handler for what they raise
CheckQueriesRaise(e) ==
    e.cuda = "count_raises" \/ (e.cuda = "ok" /\ e.nameRaises \in 0 .. e.cudaCount - 1)

\* lines 767-773, --check: check_installation (lines 619-644) imports audio_separator
\* and torch, an ImportError making it return False, and queries CUDA; then
\* list_devices (lines 646-652) enumerates
MainCheck ==
    /\ fpc = "dispatch" /\ environ # "startup" /\ args.mode = "check"
    /\ LET e == Visible(env, environ)
           r == GetAvailableDevices(e) IN
       IF e.torch = "absent"
       THEN /\ Touch({"import"})
            /\ SysExit(773)
            /\ UNCHANGED <<rocminfo_runs, call, request, ret, DEVICE_SKIPS>>
       ELSE IF CheckQueriesRaise(e)
       THEN /\ Touch({"import"})
            /\ Uncaught
            /\ UNCHANGED <<rocminfo_runs, call, request, ret, DEVICE_SKIPS>>
       ELSE /\ Touch({"import", "enumerate"})
            /\ rocminfo_runs' = rocminfo_runs + RocminfoRuns(e)
            /\ Listed(r)
            /\ IF r.raised THEN Uncaught ELSE SysExit(771)
    /\ UNCHANGED <<mainRest, env, device_arg, environ, emitVars, toolVars, normVars, writeVars>>

\* lines 775-780, --list-devices and --list-devices-machine: both enumerate first
\* (lines 648, 669), and get_available_devices imports torch (line 131)
MainListDevices ==
    /\ fpc = "dispatch" /\ environ # "startup"
    /\ args.mode \in {"list_devices", "list_devices_machine"}
    /\ LET e == Visible(env, environ)
           r == GetAvailableDevices(e) IN
          /\ Touch({"import", "enumerate"})
          /\ rocminfo_runs' = rocminfo_runs + RocminfoRuns(e)
          /\ Listed(r)
          /\ IF r.raised THEN Uncaught
             ELSE SysExit(IF args.mode = "list_devices" THEN 777 ELSE 780)
    /\ UNCHANGED <<mainRest, env, device_arg, environ, emitVars, toolVars, normVars, writeVars>>

\* lines 782-797 after the masking
MainListModels == environ # "startup" /\ FgListModels
MainUsage == environ # "startup" /\ FgUsage
MainInputNotFound == environ # "startup" /\ FgInputNotFound

\* lines 799-800 and 340: separate_stems is entered and imports audio_separator (which
\* imports torch); an ImportError reaches main's handler
MainEnter ==
    /\ fpc = "dispatch" /\ environ # "startup" /\ args.mode = "run"
    /\ args.input = "found" /\ args.output_dir
    /\ Touch({"import"})
    /\ fpc' = (IF env.torch = "absent" THEN "except" ELSE "emit0")
    /\ UNCHANGED <<mainRest, status, exit_line, devVars, rocminfo_runs,
                   emitVars, toolVars, normVars, writeVars>>

\* lines 361-386: select_device (its enumeration is line 282) and, when it returned,
\* the second enumeration of line 382; what select_device raises reaches main's handler
MainSelectDevice ==
    /\ fpc = "select_device"
    /\ LET e == Visible(env, environ)
           r == SelectDevice(e, DeviceRequest) IN
          /\ Touch({"import", "enumerate"})
          /\ call' = "select"
          /\ request' = DeviceRequest
          /\ ret' = r
          /\ DEVICE_SKIPS' = r.skips
          /\ fpc' = (IF r.raised THEN "except" ELSE "start_loading")
          /\ rocminfo_runs' = rocminfo_runs + RocminfoRuns(e) + (IF r.raised THEN 0 ELSE RocminfoRuns(e))
    /\ UNCHANGED <<mainRest, status, exit_line, env, device_arg, environ,
                   emitVars, toolVars, normVars, writeVars>>

\* backend states of the process: ROCm machines with up to two GPUs, and every
\* outcome of the torch and CUDA probes
MainEnvs ==
    {e \in ValidationEnvs : e.cudaCount <= 2 /\ e.mps = "no" /\ e.dmlCount = 0}
    \cup {e \in ProbeEnvs : e.mps = "no" /\ e.dml = "absent"}

\* what an earlier run in the same output_dir left in stdout.txt and in done.txt
StaleProgress == {<<>>, <<Line(100, "fg")>>}
StaleMarkers == {"none", "DONE", "ERROR"}

InitMain ==
    /\ args \in MainArgs
    /\ progress_file = (IF args.output_dir THEN OkSink ELSE NotConfigured)
    /\ sys_stdout = OkSink
    /\ RunStart
    /\ outFile \in (IF args.output_dir THEN StaleProgress ELSE {<<>>})
    /\ done_txt \in (IF args.output_dir THEN StaleMarkers ELSE {"none"})
    /\ env \in MainEnvs
    /\ call = "none"
    /\ request = Id("none", NoIdx)
    /\ ret = NoReturn
    /\ DEVICE_SKIPS = <<>>
    /\ device_arg \in {"auto", "cpu"}
    /\ environ = "startup"
    /\ EmitIdle /\ ToolIdle /\ NormIdle /\ RestIdle

NextMain ==
    \/ FgSetupIo \/ MainMask
    \/ MainCheck \/ MainListDevices \/ MainListModels \/ MainUsage \/ MainInputNotFound
    \/ MainEnter
    \/ FgEmitFile \/ FgEmitStd
    \/ MainSelectDevice
    \/ FgStartLoading
    \/ FgConstruct \/ FgConstructRaises
    \/ FgLoadModel \/ FgLoadModelRaises
    \/ FgSetLoadingDone \/ FgJoinLoadingTimeout
    \/ FgStartProcessing \/ FgSeparate
    \/ FgSetProcessingDone \/ FgJoinProcessingTimeout
    \/ FgRename \/ FgPrintJson \/ FgPrintJsonRaises \/ FgWriteDone \/ FgWriteError
    \/ FgExit0 \/ FgExit1

SpecMain == InitMain /\ [][NextMain]_vars

(***************************************************************************)
(* emit_progress (lines 102-118) applied once, to every state of the two   *)
(* sinks: specification SpecEmit.                                          *)
(***************************************************************************)
\* percents the callers pass (lines 355-616)
Percents == {0, 1, 3, 11, 50, 92, 100}

\* emit_progress(p, stage) is entered; line 104 builds the line
CallEmitProgress ==
    /\ epc = "idle"
    /\ \E p \in Percents : percent' = p
    /\ epc' = "file"
    /\ UNCHANGED <<jobVars, devVars, toolVars, normVars, restVars>>

emitRest == <<fpc, fsub, exc, loading_done, processing_done, lpc, lElapsed, lline,
              ppc, pElapsed, pline, estimates, last_percent, estimated_time, done_txt,
              mainVars, devVars, toolVars, normVars, restVars, percent>>

\* lines 107-112: the progress file, when configured; an exception the handler does
\* not catch leaves emit_progress
EmitProgressFile ==
    /\ epc = "file"
    /\ WriteFile(percent, "call")
    /\ epc' = (IF progress_file # NotConfigured /\ TryWrite(progress_file).exc # "ok"
               THEN "raised" ELSE "std")
    /\ UNCHANGED <<emitRest, outStd>>

\* lines 114-118: stdout
EmitProgressStd ==
    /\ epc = "std"
    /\ WriteStdout(percent, "call")
    /\ epc' = (IF TryWrite(sys_stdout).exc # "ok" THEN "raised" ELSE "returned")
    /\ UNCHANGED <<emitRest, outFile>>

InitEmit ==
    /\ args \in {a \in MainArgs : a.mode = "run" /\ a.input = "found"}
    /\ progress_file \in (IF args.output_dir THEN SinkStates ELSE {NotConfigured})
    /\ sys_stdout \in SinkStates
    /\ JobStart /\ DevIdle /\ EmitIdle /\ ToolIdle /\ NormIdle /\ RestIdle

NextEmit == CallEmitProgress \/ EmitProgressFile \/ EmitProgressStd
SpecEmit == InitEmit /\ [][NextEmit]_vars

(***************************************************************************)
(* Two calls of emit_progress (lines 102-118) made at the same time, by    *)
(* the foreground (line 412) and by loading_progress_thread (line 403),    *)
(* followed statement by statement: specification SpecWrite.  Both sinks   *)
(* are configured and every write succeeds.                                *)
(***************************************************************************)
\* the percents the caller passes: 1 and 3 for the foreground (lines 412, 505), the
\* values of the loading curve for the thread
CallerPercents(t) == IF t = "fg" THEN {1, 3} ELSE {LoadingPercent(x) : x \in LoadingClock}

writeRest == <<fpc, fsub, exc, loading_done, processing_done, lpc, lElapsed, lline,
               ppc, pElapsed, pline, estimates, last_percent, estimated_time, done_txt,
               mainVars, devVars, emitVars, toolVars, normVars, procVars>>

\* the caller moves on to its next statement
EmitStep(t, from, to) ==
    /\ emit_at[t] = from
    /\ emit_at' = [emit_at EXCEPT ![t] = to]

\* emit_progress(percent, stage) is entered; _progress_file is set (line 107)
EnterEmit(t) ==
    /\ EmitStep(t, "idle", "write_file")
    /\ \E p \in CallerPercents(t) : emit_arg' = [emit_arg EXCEPT ![t] = p]
    /\ UNCHANGED <<outFile, outStd, writeRest>>

\* line 109: _progress_file.write(line + "\n")
FileWrite(t) ==
    /\ EmitStep(t, "write_file", "flush_file")
    /\ outFile' = Append(outFile, Line(emit_arg[t], t))
    /\ UNCHANGED <<outStd, emit_arg, writeRest>>

\* line 110: _progress_file.flush()
FileFlush(t) ==
    /\ EmitStep(t, "flush_file", "write_std")
    /\ UNCHANGED <<outFile, outStd, emit_arg, writeRest>>

\* line 116: sys.stdout.write(line + "\n")
StdoutWrite(t) ==
    /\ EmitStep(t, "write_std", "flush_std")
    /\ outStd' = Append(outStd, Line(emit_arg[t], t))
    /\ UNCHANGED <<outFile, emit_arg, writeRest>>

\* line 117: sys.stdout.flush(); the call returns
StdoutFlush(t) ==
    /\ EmitStep(t, "flush_std", "returned")
    /\ UNCHANGED <<outFile, outStd, emit_arg, writeRest>>

InitWrite ==
    /\ JobInit /\ args \in DevArgs /\ DevIdle /\ EmitIdle /\ ToolIdle /\ NormIdle /\ ProcIdle
    /\ emit_at = [t \in Callers |-> "idle"]
    /\ emit_arg = [t \in Callers |-> 0]

NextWrite ==
    \E t \in Callers :
       EnterEmit(t) \/ FileWrite(t) \/ FileFlush(t) \/ StdoutWrite(t) \/ StdoutFlush(t)

SpecWrite == InitWrite /\ [][NextWrite]_vars

(***************************************************************************)
(* tools/separate.py, main (lines 19-41): specification SpecTool.          *)
(***************************************************************************)
\* signals that can end the subprocess (its return code is then negative)
MaxSignal == 15
\* exit statuses of the subprocess
MaxRc == 8
ReturnCodes == (0 - MaxSignal) .. MaxRc

\* return 2 (line 29) and return 3 (line 40)
NotFoundCode == 2
OSErrorCode == 3

\* mutant: a failed start is reported with the code of a missing executable
ToolResultSameCode(exe, outcome) ==
    IF exe = "None" THEN NotFoundCode
    ELSE IF outcome.raises THEN NotFoundCode
    ELSE outcome.rc

\* lines 26-41: the value main returns
ToolResult(exe, outcome) ==
    IF exe = "None" THEN NotFoundCode
    ELSE IF outcome.raises THEN OSErrorCode
    ELSE outcome.rc

toolRest == <<jobVars, devVars, emitVars, normVars, restVars, demucs_exe, subprocess_call>>

\* lines 26-29: shutil.which("demucs") found nothing; return 2
ToolNotFound ==
    /\ tpc = "which" /\ demucs_exe = "None"
    /\ returned' = [set |-> TRUE, val |-> ToolResult(demucs_exe, subprocess_call)]
    /\ tpc' = "returned"
    /\ UNCHANGED <<toolRest, started>>

\* lines 26-37: the executable was found, the command is built and subprocess.call entered
ToolStart ==
    /\ tpc = "which" /\ demucs_exe # "None"
    /\ started' = TRUE
    /\ tpc' = "call"
    /\ UNCHANGED <<toolRest, returned>>

\* lines 37-41: subprocess.call returns the return code or raises OSError
ToolFinish ==
    /\ tpc = "call"
    /\ returned' = [set |-> TRUE, val |-> ToolResult(demucs_exe, subprocess_call)]
    /\ tpc' = "returned"
    /\ UNCHANGED <<toolRest, started>>

InitTool ==
    /\ tpc = "which"
    /\ demucs_exe \in {"None", "path"}
    /\ subprocess_call \in [raises : BOOLEAN, rc : ReturnCodes]
    /\ started = FALSE
    /\ returned = [set |-> FALSE, val |-> 0]
    /\ JobInit /\ args \in DevArgs /\ DevIdle /\ EmitIdle /\ NormIdle /\ RestIdle

NextTool == ToolNotFound \/ ToolStart \/ ToolFinish
SpecTool == InitTool /\ [][NextTool]_vars

(***************************************************************************)
(* Output renaming of separate_stems (lines 586-614): specification        *)
(* SpecNorm.  A file name is the sequence of its characters, without the   *)
(* extension; a path is a name and the number of output_dir prefixes in    *)
(* front of it (0: the bare name, 1: <output_dir>/<name>.wav).             *)
(***************************************************************************)
\* raw output files separator.separate returns at most
MaxFiles == 2

\* str.lower() on the letters that occur
LowerChar(c) ==
    CASE c = "B" -> "b"
      [] c = "D" -> "d"
      [] c = "G" -> "g"
      [] c = "I" -> "i"
      [] c = "K" -> "k"
      [] c = "M" -> "m"
      [] c = "N" -> "n"
      [] c = "O" -> "o"
      [] c = "P" -> "p"
      [] c = "V" -> "v"
      [] OTHER -> c
LowerStr(str) == [i \in 1 .. Len(str) |-> LowerChar(str[i])]

\* pattern in filename (line 605)
IsSubstring(pat, str) ==
    \E k \in 0 .. Len(str) - Len(pat) : \A i \in 1 .. Len(pat) : str[k + i] = pat[i]

\* lines 588-595, in the iteration order of the dict
stem_mapping ==
    << [stem |-> <<"v", "o", "c", "a", "l", "s">>,
        patterns |-> << <<"v", "o", "c", "a", "l", "s">>,
                      <<"v", "o", "c", "a", "l">>,
                      <<"V", "o", "c", "a", "l", "s">> >>],
       [stem |-> <<"d", "r", "u", "m", "s">>,
        patterns |-> << <<"d", "r", "u", "m", "s">>,
                      <<"d", "r", "u", "m">>,
                      <<"D", "r", "u", "m", "s">> >>],
       [stem |-> <<"b", "a", "s", "s">>,
        patterns |-> << <<"b", "a", "s", "s">>,
                      <<"B", "a", "s", "s">> >>],
       [stem |-> <<"o", "t", "h", "e", "r">>,
        patterns |-> << <<"o", "t", "h", "e", "r">>,
                      <<"O", "t", "h", "e", "r">>,
                      <<"n", "o", "_", "v", "o", "c", "a", "l", "s">>,
                      <<"i", "n", "s", "t", "r", "u", "m", "e", "n", "t", "a", "l">>,
                      <<"I", "n", "s", "t", "r", "u", "m", "e", "n", "t", "a", "l">> >>],
       [stem |-> <<"g", "u", "i", "t", "a", "r">>,
        patterns |-> << <<"g", "u", "i", "t", "a", "r">>,
                      <<"G", "u", "i", "t", "a", "r">> >>],
       [stem |-> <<"p", "i", "a", "n", "o">>,
        patterns |-> << <<"p", "i", "a", "n", "o">>,
                      <<"P", "i", "a", "n", "o">>,
                      <<"k", "e", "y", "s">>,
                      <<"K", "e", "y", "s">> >>] >>

StemNames == {stem_mapping[k].stem : k \in 1 .. Len(stem_mapping)}

\* names separator.separate gives its files: the song name and the stem in brackets
RawNames ==
    { <<"m", "i", "x", "_", "(", "V", "o", "c", "a", "l", "s", ")">>,
      <<"m", "i", "x", "_", "(", "N", "o", "_", "V", "o", "c", "a", "l", "s", ")">>,
      <<"b", "a", "s", "s", "_", "(", "D", "r", "u", "m", "s", ")">>,
      <<"m", "i", "x">> }

Path(depth, name) == [depth |-> depth, name |-> name]

\* os.path.isabs(output_file), line 598: a path under an absolute output_dir
IsAbs(dirAbs, path) == dirAbs /\ path.depth >= 1

\* lines 598-599: os.path.join(output_dir, output_file) unless the path is absolute
Join(dirAbs, path) == IF IsAbs(dirAbs, path) THEN path ELSE Path(path.depth + 1, path.name)

\* line 606: os.path.join(output_dir, f"{stem_name}.wav")
NewPath(stem) == Path(1, stem)

\* line 604-605: some pattern of the entry, lowered, occurs in the lowered file name
Matches(entry, name) ==
    \E i \in 1 .. Len(entry.patterns) : IsSubstring(LowerStr(entry.patterns[i]), LowerStr(name))

\* line 612: result[stem_name] = new_path
Assign(res, stem, path) == {r \in res : r[1] # stem} \cup {<<stem, path>>}

Op(file, stem, act) == [file |-> file, stem |-> stem, act |-> act]

normRest == <<jobVars, devVars, emitVars, toolVars, restVars, output_dir_abs, output_files>>

\* the loop variables after one stem: the next stem, the next file, or the end
Advance ==
    IF nk < Len(stem_mapping) THEN nk' = nk + 1 /\ UNCHANGED <<ni, npc>>
    ELSE IF ni < Len(output_files) THEN ni' = ni + 1 /\ nk' = 1 /\ UNCHANGED npc
    ELSE npc' = "done" /\ UNCHANGED <<ni, nk>>

\* lines 603-605: no pattern of the stem occurs in the file name
RenameNoMatch ==
    /\ npc = "loop"
    /\ ~Matches(stem_mapping[nk], output_files[ni].name)
    /\ Advance
    /\ UNCHANGED <<normRest, fs, result, ops>>

\* lines 605-614: a pattern of the stem occurs in the file name; the inner loop over
\* the patterns is left (break), the loop over the stems goes on
RenameMatch ==
    /\ npc = "loop"
    /\ Matches(stem_mapping[nk], output_files[ni].name)
    /\ LET stem == stem_mapping[nk].stem
           output_file == Join(output_dir_abs, output_files[ni])
           new_path == NewPath(stem)
           removed == IF new_path \in fs THEN <<Op(ni, stem, "remove")>> ELSE <<>>
       IN  IF output_file = new_path
           THEN /\ result' = Assign(result, stem, new_path)
                /\ ops' = Append(ops, Op(ni, stem, "keep"))
                /\ Advance
                /\ UNCHANGED fs
           ELSE IF output_file \notin fs \ {new_path}
           THEN \* os.remove(new_path) was done; shutil.move raises FileNotFoundError
                /\ fs' = fs \ {new_path}
                /\ ops' = ops \o removed \o <<Op(ni, stem, "raise")>>
                /\ npc' = "raised"
                /\ UNCHANGED <<result, ni, nk>>
           ELSE /\ fs' = (fs \ {output_file}) \cup {new_path}
                /\ result' = Assign(result, stem, new_path)
                /\ ops' = ops \o removed \o <<Op(ni, stem, "move")>>
                /\ Advance
    /\ UNCHANGED normRest

\* sequences of n paths with different names
PathLists(n) ==
    {q \in [1 .. n -> [depth : 0 .. 1, name : StemNames \cup RawNames]] :
        \A i, j \in 1 .. n : q[i].name = q[j].name => i = j}

\* separate returned its list: every file it names is in output_dir; stems of an
\* earlier run may be there too
InitNorm ==
    /\ output_dir_abs \in BOOLEAN
    /\ output_files \in UNION {PathLists(n) : n \in 0 .. MaxFiles}
    /\ \E old \in {{}, {NewPath(stem_mapping[1].stem), NewPath(stem_mapping[4].stem)}} :
          fs = old \cup {Path(1, output_files[i].name) : i \in 1 .. Len(output_files)}
    /\ result = {} /\ ops = <<>>
    /\ npc = (IF output_files = <<>> THEN "done" ELSE "loop")
    /\ ni = 1 /\ nk = 1
    /\ JobInit /\ args \in DevArgs /\ DevIdle /\ EmitIdle /\ ToolIdle /\ RestIdle

NextNorm == RenameNoMatch \/ RenameMatch
SpecNorm == InitNorm /\ [][NextNorm]_vars

(***************************************************************************)
(* Claims about the job run (specification Spec).                          *)
(***************************************************************************)
Sinks == <<outFile, outStd>>
IsProgress(l) == l.src # "json"
ProgressLines(out) == SelectSeq(out, IsProgress)
From(out, src) == SelectSeq(out, LAMBDA l : l.src = src)
IsPrefix(s, t) == Len(s) <= Len(t) /\ \A i \in 1 .. Len(s) : s[i] = t[i]

NonDecreasing(out) ==
    LET p == ProgressLines(out) IN
    \A i, j \in 1 .. Len(p) : i < j => p[i].pct <= p[j].pct

\* C1 (as claimed): in each sink the percents of the PROGRESS lines never decrease,
\* whatever the interleaving of the foreground and the estimator threads.
C1_PercentNonDecreasing == \A k \in 1 .. 2 : NonDecreasing(Sinks[k])

\* the foreground is past loading_worker.join (line 511)
LoadingJoinReturned ==
    fpc \in {"emit11", "start_processing", "separate", "set_processing_done", "join_processing",
             "emit92", "rename", "emit100", "print_json", "write_done", "shutdown0", "exit0"}
    \/ (exc /\ fpc \in {"except", "shutdown1", "exit1"})

\* the foreground is past progress_worker.join (line 580)
ProcessingJoinReturned ==
    fpc \in {"emit92", "rename", "emit100", "print_json", "write_done", "shutdown0", "exit0"}
    \/ (exc /\ fpc \in {"except", "shutdown1", "exit1"})

\* this step writes no line of the given emitter to any sink
WritesNothing(src) ==
    /\ From(outFile', src) = From(outFile, src)
    /\ From(outStd', src) = From(outStd, src)

\* C2 (as claimed): once the foreground has set an estimator's event and its join has
\* returned, by termination or by timeout, that estimator writes no further line.
C2_NoLineAfterJoin ==
    [][ /\ LoadingJoinReturned => WritesNothing("load")
        /\ ProcessingJoinReturned => WritesNothing("proc") ]_vars

Boundaries == <<0, 11, 92, 100>>
IsBoundary(l) == l.src = "fg" /\ l.pct \in {0, 11, 92, 100}
BoundaryPcts(out) == LET b == SelectSeq(out, IsBoundary) IN [i \in 1 .. Len(b) |-> b[i].pct]

\* separate_stems has returned (line 617)
Succeeded ==
    \/ fpc \in {"print_json", "write_done", "shutdown0"}
    \/ fpc = "exit0" /\ exit_line = 0

\* C3: in each sink the foreground's boundary events come in the order 0, 11, 92, 100
\* (all four once the run succeeded), 0 is the first line and is written once, the
\* loading thread's lines are in 1..10, the processing thread's in 12..88 (also with
\* estimated_time = 0), and every percent is in 0..100.
C3_BoundariesAndRanges ==
    \A k \in 1 .. 2 :
        LET out == ProgressLines(Sinks[k]) IN
        /\ IsPrefix(BoundaryPcts(out), Boundaries)
        /\ Succeeded => BoundaryPcts(out) = Boundaries
        /\ out # <<>> => out[1] = Line(0, "fg")
        /\ Len(SelectSeq(out, LAMBDA l : l.pct = 0)) <= 1
        /\ \A i \in 1 .. Len(out) :
              /\ out[i].pct \in 0 .. 100
              /\ out[i].src = "load" => out[i].pct \in 1 .. 10
              /\ out[i].src = "proc" => out[i].pct \in 12 .. 88

\* a successful run with estimated_time = 0 in which the processing thread wrote a line
\* computed by the linear branch at a positive elapsed time
C3_Witness ==
    /\ fpc = "exit0"
    /\ estimated_time = 0
    /\ \E i \in 1 .. Len(outStd) : outStd[i].src = "proc" /\ outStd[i].pct > 12

\* C14 (as claimed): when separator.separate raised, the process exits with a status
\* that is not 0 and differs from the status of the exit for an input file that is not
\* found (line 797) and from the status of the exit for a failed installation check
\* (line 773).
C14_DistinctExitStatus ==
    (fpc = "exit1" /\ exit_line = 813 /\ exc) =>
        /\ status # 0
        /\ status # ExitArg(797)
        /\ status # ExitArg(773)

\* C15 (as claimed): a process that was given output_dir and has ended, on success or
\* on any error exit, the one for an input file that is not found included, has
\* written DONE or ERROR to the status marker file.
C15_MarkerBeforeExit ==
    (Exited /\ args.output_dir) => done_txt \in {"DONE", "ERROR"}

\* C16 (as claimed): the JSON result is the last thing written to stdout: no PROGRESS
\* line of the foreground or of an estimator thread follows it, under any interleaving.
C16_JsonLast ==
    \A i \in 1 .. Len(outStd) : outStd[i] = Json => i = Len(outStd)

\* the estimator threads that were started have been signaled and have ended
EstimatorsStopped ==
    /\ lpc # "idle" => loading_done /\ lpc = "dead"
    /\ ppc # "idle" => processing_done /\ ppc = "dead"

\* C20 (as claimed): when Separator(...), load_model or separate raised, the estimator
\* thread of that phase has been signaled and joined before the error propagates: no
\* estimator is still running when the ERROR marker has been written.
C20_EstimatorsStoppedOnError ==
    done_txt = "ERROR" => EstimatorsStopped

\* the foreground emitted the 100 "Complete" line (line 616, the last statement of
\* separate_stems before its return)
CompleteEmitted == \E i \in 1 .. Len(outFile) : outFile[i] = Line(100, "fg")
JsonPrinted == \E i \in 1 .. Len(outStd) : outStd[i] = Json

\* C30 (as claimed): with a progress file configured and no write failing, the
\* progress file and stdout receive the same sequence of PROGRESS lines in the same
\* order under every interleaving of the foreground and the estimator threads: at
\* every moment the stdout sequence is a prefix of the file sequence.
C30_SameOrder ==
    (progress_file = OkSink /\ sys_stdout = OkSink) =>
        IsPrefix(ProgressLines(outStd), ProgressLines(outFile))

(***************************************************************************)
(* Termination of the foreground (specification SpecFair).                 *)
(***************************************************************************)
\* C27: provided the blocking calls return, the foreground sequence always reaches its
\* end (it emits 100, or the error propagates) and the process exits, even if an
\* estimator thread never reacts to its stop signal: each join waits at most its
\* timeout and the daemon threads do not hold up the exit.
C27_ForegroundEnds == <>Exited

\* the job succeeded and the process has exited while neither estimator thread, both
\* started, has reacted to its event
C27_Witness ==
    /\ fpc = "exit0" /\ exit_line = 0 /\ CompleteEmitted
    /\ loading_done /\ lpc \notin {"idle", "dead"}
    /\ processing_done /\ ppc \notin {"idle", "dead"}

(***************************************************************************)
(* Claims about the device catalog and selector (specification SpecDev).   *)
(***************************************************************************)
Selected == call = "select"
Enumerated == call = "enumerate"
\* the last call returned: its enumeration produced a catalog
Returned == call # "none" /\ ~ret.raised
AvailableIds == Ids(ret.available)
SkippedIds == Ids(DEVICE_SKIPS)
IsGpuEntry(d) == d.type \in GpuTypes

\* C4 (as claimed): select_device never raises, whatever the request and the state
\* of the backends, torch absent and raising queries included.
C4_SelectNeverRaises == Selected => ~ret.raised

\* C5: the id select_device returns is cpu or the id of a device in the available
\* list of the enumeration made inside the call; it is never a skipped id, never auto.
C5_ResultAvailableOrCpu ==
    (Selected /\ ~ret.raised) =>
        /\ ret.choice.id = Cpu \/ ret.choice.id \in AvailableIds
        /\ ret.choice.id \notin SkippedIds
        /\ ret.choice.id # Auto

\* a cuda request that is skipped is answered with another cuda device
C5_Witness ==
    /\ Selected /\ ~ret.raised
    /\ request \in SkippedIds
    /\ ret.choice.id.fam = "cuda"

\* C6: select_device("auto") returns the first entry of the available list whose type
\* is cuda, directml or mps when there is one, and cpu otherwise; with the available
\* list [auto, cpu, cuda:0] it returns cuda:0.
C6_AutoFirstGpu ==
    (Selected /\ ~ret.raised /\ request = Auto) =>
        /\ ret.choice.warnings = <<>>
        /\ (\E i \in 1 .. Len(ret.available) : IsGpuEntry(ret.available[i])) =>
              \E i \in 1 .. Len(ret.available) :
                 /\ IsGpuEntry(ret.available[i])
                 /\ \A j \in 1 .. i - 1 : ~IsGpuEntry(ret.available[j])
                 /\ ret.choice.id = ret.available[i].id
                 /\ ret.choice.name = ret.available[i].name
        /\ (\A i \in 1 .. Len(ret.available) : ~IsGpuEntry(ret.available[i])) =>
              ret.choice.id = Cpu
        /\ [i \in 1 .. Len(ret.available) |-> ret.available[i].id] = <<Auto, Cpu, Cuda(0)>> =>
              ret.choice.id = Cuda(0)

\* auto on a machine whose cuda:0 is skipped: cuda:1 is chosen, ahead of mps
C6_Witness ==
    /\ Selected /\ ~ret.raised /\ request = Auto
    /\ Cuda(0) \in SkippedIds
    /\ Mps \in AvailableIds
    /\ ret.choice.id = Cuda(1)

\* C7: select_device("cpu") returns the CPU device for every catalog the enumeration
\* inside the call produces, also one with GPU devices that passed validation, and
\* prints no warning.
C7_CpuAlwaysCpu ==
    (Selected /\ ~ret.raised /\ request = Cpu) =>
        /\ ret.choice.id = Cpu
        /\ ret.choice.name = <<"CPU", NoIdx>>
        /\ ret.choice.warnings = <<>>

\* cpu requested on a ROCm machine with a validated cuda device, mps and directml
C7_Witness ==
    /\ Selected /\ ~ret.raised /\ request = Cpu
    /\ env.rocm
    /\ {"cuda", "mps", "directml"} \subseteq {ret.available[i].type : i \in 1 .. Len(ret.available)}
    /\ ret.choice.id = Cpu

NoCudaAvailable == \A i \in 1 .. Len(ret.available) : ret.available[i].type # "cuda"

\* C8 (as claimed): select_device("cuda:5"), with cuda:5 not in the available list and
\* no cuda device in it, returns cpu and prints exactly one warning.
C8_OneWarning ==
    (Selected /\ ~ret.raised /\ request = Cuda(5) /\ request \notin AvailableIds /\ NoCudaAvailable) =>
        /\ ret.choice.id = Cpu
        /\ Len(ret.choice.warnings) = 1

\* C8 (amended): ... returns cpu; it prints exactly one warning when cuda:5 is not in
\* the skipped list either, and two (the skip reason, then the cpu fallback) when it is.
C8_WarningsAmended ==
    (Selected /\ ~ret.raised /\ request = Cuda(5) /\ request \notin AvailableIds /\ NoCudaAvailable) =>
        /\ ret.choice.id = Cpu
        /\ ret.choice.warnings =
              IF request \in SkippedIds THEN <<"skip_reason", "fallback_cpu">> ELSE <<"fallback_cpu">>

\* cuda:5 requested where the driver shows cuda devices, none of them usable or cuda:5
C8_Witness ==
    /\ Selected /\ ~ret.raised /\ request = Cuda(5)
    /\ NoCudaAvailable
    /\ request \notin SkippedIds
    /\ DEVICE_SKIPS # <<>>
    /\ ret.choice.id = Cpu

\* the backends as torch sees them in this process
Seen == Visible(env, environ)

\* the devices an isolated probe of each backend reports
CudaProbeOk == env.torch = "ok" /\ Seen.cuda = "ok" /\ env.nameRaises \notin 0 .. Seen.cudaCount - 1
MpsProbeOk == env.torch = "ok" /\ env.mps = "yes"
DmlProbeOk ==
    env.torch = "ok" /\ env.dml = "ok" /\ env.dmlCount > 0 /\ env.dmlRaises \notin 0 .. env.dmlCount - 1

\* C9 (as claimed): get_available_devices returns normally for every combination of
\* probe outcomes, its list starts with auto and cpu and holds the devices of every
\* backend whose own probe succeeded; a raising CUDA query neither hides the MPS and
\* DirectML devices nor reaches the caller.
C9_ProbesIsolated ==
    Enumerated =>
        /\ ~ret.raised
        /\ Len(ret.available) >= 2
        /\ ret.available[1].id = Auto /\ ret.available[2].id = Cpu
        /\ CudaProbeOk => \A i \in 0 .. Seen.cudaCount - 1 : Cuda(i) \in AvailableIds \cup SkippedIds
        /\ MpsProbeOk => Mps \in AvailableIds
        /\ DmlProbeOk => \E i \in 1 .. Len(ret.available) : ret.available[i].type = "directml"

\* C10: after a call of get_available_devices that returned its list, every cuda index
\* the driver shows is in exactly one of the available list and _DEVICE_SKIPS, the two
\* share no id, and no id is twice in the available list.
C10_Partition ==
    Returned =>
        /\ (env.torch = "ok" /\ Seen.cuda = "ok") =>
              \A i \in 0 .. Seen.cudaCount - 1 :
                 (Cuda(i) \in AvailableIds) # (Cuda(i) \in SkippedIds)
        /\ AvailableIds \cap SkippedIds = {}
        /\ \A i, j \in 1 .. Len(ret.available) :
              ret.available[i].id = ret.available[j].id => i = j
        /\ \A i, j \in 1 .. Len(DEVICE_SKIPS) :
              DEVICE_SKIPS[i].id = DEVICE_SKIPS[j].id => i = j

\* an enumeration with skipped and available cuda devices and several DirectML devices
C10_Witness ==
    /\ Enumerated /\ ~ret.raised
    /\ DEVICE_SKIPS # <<>>
    /\ \E i \in 1 .. Len(ret.available) : ret.available[i].type = "cuda"
    /\ \E i \in 1 .. Len(ret.available) : ret.available[i].id = Id("directml", 1)

\* the architecture lookup of cuda device i raised, returned nothing, or returned
\* something that is not a gfx architecture string
ArchUnknown(i) ==
    /\ i >= Len(env.rocminfo)
    /\ env.props[i + 1] \in {"raise", "none", "int", "sm_90"}

\* the kernel-library directory does not exist or its listing raises
LibraryUnverifiable == env.libdir \in {"missing", "raises"}

\* C11: on a ROCm build, a cuda device whose architecture lookup raises, returns
\* nothing or returns no gfx architecture, or whose kernel-library directory is missing
\* or cannot be listed, is treated as supported: it is in the available list and not
\* in _DEVICE_SKIPS.
C11_FailOpen ==
    (Returned /\ Seen.rocm /\ Seen.cuda = "ok") =>
        \A i \in 0 .. Seen.cudaCount - 1 :
           (ArchUnknown(i) \/ LibraryUnverifiable) =>
              Cuda(i) \in AvailableIds /\ Cuda(i) \notin SkippedIds

\* cuda:0 is skipped for its architecture while cuda:1, whose property query raised,
\* stays available
C11_Witness ==
    /\ Enumerated /\ ~ret.raised /\ Seen.rocm /\ env.libdir = "ok"
    /\ Seen.cudaCount = 2 /\ ArchUnknown(1) /\ env.props[2] = "raise"
    /\ Cuda(0) \in SkippedIds
    /\ Cuda(1) \in AvailableIds

\* C12 (as claimed): in a process started with --device cpu, every call of
\* get_available_devices (also the one inside select_device) returns no device other
\* than auto and cpu, whatever CUDA, MPS or DirectML hardware is present.
C12_CpuMasksAllGpus ==
    (device_arg = "cpu" /\ Returned) => AvailableIds \subseteq {Auto, Cpu}

\* the catalog entries of the backend family the request names
SameFamily == {d \in Entries(ret.available) : d.type = request.fam}

\* C21 (as claimed): a request "<family>:<index>" of a GPU family, cuda and directml
\* alike, that is not in the available list is answered with the first available
\* device of that family, with a warning, and with cpu only when the family has no
\* available device (directml:1 requested with a directml device available returns
\* that directml device).
C21_FamilyFallback ==
    (Selected /\ ~ret.raised /\ request.fam \in {"cuda", "directml"} /\ request.idx # NoIdx
       /\ request \notin AvailableIds) =>
        /\ SameFamily # {} =>
              /\ ret.choice.id = First(ret.available, SameFamily).id
              /\ ret.choice.warnings # <<>>
        /\ SameFamily = {} => ret.choice.id = Cpu

\* the positions of the warnings of the last select_device call that cite a skip reason
SkipReasonAt == {i \in 1 .. Len(ret.choice.warnings) : ret.choice.warnings[i] = "skip_reason"}

\* C22: select_device prints a warning that cites a device's skip reason if and only
\* if the requested id is in the skipped list of the enumeration made inside the call;
\* that warning comes before any fallback warning, and none is printed for the
\* requests auto, cpu, mps or for an id that is available.
C22_SkipReasonIff ==
    (Selected /\ ~ret.raised) =>
        /\ SkipReasonAt # {} <=> request \in Ids(ret.skips)
        /\ SkipReasonAt \subseteq {1}
        /\ DEVICE_SKIPS = ret.skips
        /\ request \in {Auto, Cpu, Mps} \cup AvailableIds => SkipReasonAt = {}

\* a skipped cuda device is requested while another cuda device is usable: the skip
\* reason is printed, then the fallback to that device
C22_Witness ==
    /\ Selected /\ ~ret.raised
    /\ request \in Ids(ret.skips)
    /\ ret.choice.warnings = <<"skip_reason", "fallback_cuda">>

\* the architecture the validation of cuda device i looks at
ArchOf(i) == DeviceRocmArch(Seen, i)
\* it is a gfx architecture string, with or without a feature suffix
KnownGfx(i) == ArchOf(i) \in {"gfx1100", "gfx1103", "gfx1103:xnack-"}
\* no file of the kernel library is named after the architecture
NoArtifactFor(i) == \A a \in env.libArches : a # ArchBase(ArchOf(i))

\* C23: a cuda device is put in the skipped list if and only if the backend is ROCm,
\* its architecture is a known gfx string, the kernel-library directory exists and
\* holds no artifact whose name matches that architecture; in every unknown or
\* unverifiable case no skip record is produced.
C23_SkipIff ==
    (Returned /\ Seen.cuda = "ok") =>
        \A i \in 0 .. Seen.cudaCount - 1 :
           Cuda(i) \in SkippedIds <=>
              (Seen.rocm /\ KnownGfx(i) /\ env.libdir = "ok" /\ NoArtifactFor(i))

\* rocminfo gave nothing: cuda:0, gfx1103 with a feature suffix by its torch property,
\* is skipped and cuda:1, gfx1100, is listed
C23_Witness ==
    /\ Enumerated /\ ~ret.raised /\ Seen.rocm /\ env.libdir = "ok"
    /\ env.rocminfo = <<>> /\ env.props = <<"gfx1103:xnack-", "gfx1100">>
    /\ SkippedIds = {Cuda(0)}
    /\ Cuda(1) \in AvailableIds

(***************************************************************************)
(* Claims about one process and its backends (specification SpecMain).     *)
(***************************************************************************)
\* C24 (as claimed): rocminfo is run at most once per process invocation, however
\* many times get_available_devices is called in the process and however many
\* devices are validated.
C24_RocminfoOnce == rocminfo_runs <= 1

\* C25: on every path through main with --device cpu, the GPU-visibility variables
\* are empty when the process first imports a backend library and when it first
\* calls get_available_devices, the --check and --list-devices paths included.
C25_MaskBeforeUse ==
    device_arg = "cpu" =>
        \A k \in {"import", "enumerate"} : first_use[k] \in {"never", "empty"}

\* --check with --device cpu has imported torch and enumerated, both under the mask
C25_Witness ==
    /\ device_arg = "cpu" /\ args.mode = "check" /\ exit_line = 771
    /\ first_use = [import |-> "empty", enumerate |-> "empty"]

\* this run has written its marker: write_done("DONE") at line 804, write_done("ERROR")
\* at line 812
WroteDone == fpc = "shutdown0" \/ (fpc = "exit0" /\ exit_line = 0)
WroteError == fpc = "shutdown1" \/ (fpc = "exit1" /\ exit_line = 813)

\* C28 (as claimed): DONE is written only after the 100 "Complete" line was emitted
\* and the JSON result was printed, and ERROR is written only if separate_stems
\* raised, so that one run writes at most one of the two marker values.
C28_OneMarker ==
    /\ WroteDone => done_txt = "DONE" /\ CompleteEmitted /\ JsonPrinted
    /\ WroteError => done_txt = "ERROR" /\ ~CompleteEmitted

\* the run has truncated stdout.txt and written its first progress line, and has not
\* reached its own write of the marker
FirstLineWritten ==
    /\ fpc \notin {"setup_io", "dispatch", "shutdown0", "shutdown1", "exit0", "exit1"}
    /\ Len(outFile) >= 1 /\ outFile[1] = Line(0, "fg")

\* C29 (as claimed): when a run has truncated stdout.txt and written its first
\* progress line, no DONE or ERROR marker of an earlier run in the same run directory
\* is present.
C29_NoStaleMarker == FirstLineWritten => done_txt = "none"

(***************************************************************************)
(* Claims about emit_progress (specification SpecEmit).                    *)
(***************************************************************************)
\* C13: emit_progress never raises; when the write or the flush of one sink fails
\* with an OSError, a ValueError or an AttributeError, the exception is swallowed and
\* the same call still writes the line to the other sink, provided that one accepts it.
C13_SinkFailureSwallowed ==
    /\ epc # "raised"
    /\ epc = "returned" =>
          /\ sys_stdout.write = "ok" => outStd = <<Line(percent, "call")>>
          /\ (progress_file # NotConfigured /\ progress_file.write = "ok") =>
                outFile = <<Line(percent, "call")>>

\* the write to the progress file raised ValueError (closed file) and the call went on
\* to write the line to stdout and returned
C13_Witness ==
    /\ epc = "returned"
    /\ progress_file # NotConfigured /\ progress_file.write = "ValueError"
    /\ outFile = <<>>
    /\ outStd = <<Line(percent, "call")>>

(***************************************************************************)
(* Claims about concurrent emit_progress calls (specification SpecWrite).  *)
(***************************************************************************)
\* the caller has executed the write to the sink and not yet finished its flush
InsideFile(t) == emit_at[t] = "flush_file"
InsideStdout(t) == emit_at[t] = "flush_std"

\* C26 (as claimed): at any time at most one thread is executing a write to a given
\* sink: the foreground and an estimator thread are never both inside the write/flush
\* of emit_progress for the same sink.
C26_WritesSerialized ==
    \A t, u \in Callers :
       t # u => /\ ~(InsideFile(t) /\ InsideFile(u))
                /\ ~(InsideStdout(t) /\ InsideStdout(u))

FirstStem(name) ==
    stem_mapping[CHOOSE k \in 1 .. Len(stem_mapping) :
                    /\ Matches(stem_mapping[k], name)
                    /\ \A h \in 1 .. k - 1 : ~Matches(stem_mapping[h], name)].stem

OpsOf(i) == {j \in 1 .. Len(ops) : ops[j].file = i}

\* C17 (as claimed): each raw output file is mapped to at most one stem: only the first
\* stem of the table that matches its name is used, no later stem is attempted, and
\* the file is moved at most once.
C17_FirstStemOnly ==
    \A i \in 1 .. Len(output_files) :
        /\ \A j \in OpsOf(i) : ops[j].stem = FirstStem(output_files[i].name)
        /\ Cardinality({j \in OpsOf(i) : ops[j].act \in {"move", "raise"}}) <= 1

\* every raw output file is already <output_dir>/<stem>.wav for a stem of the table
Canonical ==
    /\ output_files # <<>>
    /\ \A i \in 1 .. Len(output_files) :
          output_files[i].depth = 1 /\ output_files[i].name \in StemNames

\* C18 (as claimed): applied to files already named <output_dir>/<stem>.wav the loop
\* moves and deletes nothing, raises no error and returns the mapping of each stem to
\* the same path, which is again such a list of files.
C18_IdempotentOnCanonical ==
    Canonical =>
        /\ npc # "raised"
        /\ \A j \in 1 .. Len(ops) : ops[j].act = "keep"
        /\ npc = "done" =>
              result = {<<output_files[i].name, output_files[i]>> : i \in 1 .. Len(output_files)}

====
